---- MODULE Spec2Model ----
(***************************************************************************)
(* A model of GraphMind Weaver (axluca/graphmind): the graph visualizer's  *)
(* sanitizer and level assigner, its search box, its force simulation and  *)
(* drag handling, and the App's expansion merge.                           *)
(*                                                                         *)
(* Strings that the program inspects character by character (labels and    *)
(* search queries) are sequences of one-character strings.  Node ids are   *)
(* only compared for equality and stay TLA+ strings; "" is the empty id.   *)
(***************************************************************************)
EXTENDS Integers, Sequences, FiniteSets, TLC

VARIABLES
    \* ---- GraphVisualizer main effect, as a function of its data prop ----
    data,            \* the data prop: [nodes, links], raw
    layoutPc,        \* "input" before the effect body ran, "done" after
    passNo,          \* 1: first application, 2: applied to its own output
    prevOut,         \* output of the first application (kept for pass 2)
    sanitizedNodes,  \* GraphVisualizer.tsx:135
    sanitizedLinks,  \* GraphVisualizer.tsx:136
    leveling,        \* outcome of lines 154-217: [threw, levels, rootNodeId, runs]
    warnings,        \* what the sanitizer passed to console.warn, in order
    \* ---- import validator (importService validateGraphData) ----
    validated,       \* what validateGraphData returned for data: [nodes, links, warnings]
    validatePc,      \* "input" before validateGraphData ran, "done" after
    \* ---- search box (App.tsx:99-100, GraphVisualizer.tsx:44) ----
    searchQuery,        \* App state, a sequence of characters
    highlightedNodeId,  \* App state, a node id or Null
    suggestions,        \* GraphVisualizer state, a sequence of nodes
    sugPending,         \* the suggestions effect is scheduled (a dependency changed)
    lastEvent,          \* the last search handler that ran, with its node
    \* ---- force simulation and drag (GraphVisualizer.tsx:42, 276-335) ----
    mounted,            \* the GraphVisualizer is mounted
    sims,               \* every simulation built so far, in order of creation
    simulationRef,      \* simulationRef.current: an index into sims, 0 for null
    gestures,           \* d3-drag's active gestures: pointer identifier -> subject
    \* ---- App: expansion merge (App.tsx:74, 318-367) ----
    graphData,          \* App state: a graph or NoGraph (null)
    expansionData,      \* what expandGraphFromNode resolved with
    prevData,           \* the graphData the merge updater was called with
    mergePc,            \* "pending" before setGraphData(prevData => ...), "merged" after
    \* ---- App: operations on the displayed graph (App.tsx:74-100, 202-402, 461-476) ----
    isCurrentGraphSaved,
    isLoading,
    error,                      \* Null or a message
    selectedNode,               \* a node or NoNode
    pendingAction,              \* NoAction, or the closure of the deferred action
    isUnsavedChangesModalOpen,
    isSaveModalOpen,
    savedGraphs,                \* the graphs in the persistent store
    inFlight,                   \* per kind (generate, import): its async function is awaiting
    expanding,                  \* the node whose expansion request is awaiting, or NoNode
    saving,                     \* the save that is awaiting: what its closure captured
    outcome,                    \* how the operation that just finished ended
    useDefaultModel,            \* the settings' choice of the default model
    deferred,                   \* history of the latest deferred request: [req, decided, runs]
    scene,                      \* what the svg element shows
    viewport,                   \* the container's width and height
    imgPending,                 \* the images still decoding, with what their handlers captured
    downloads,                  \* the files the export has produced
    consoleErrors,              \* what console.error has logged
    callerError,                \* an exception has reached the caller of exportAsPNG
    exportEvent,                \* the export event that just happened
    exportsStarted,             \* calls of exportAsPNG so far
    objectStore,                \* the records of the IndexedDB store 'graphs'
    keyGenerator,               \* the store's next generated key
    dbSaved,                    \* history: what each save was given and returned, in order
    dbDeleted,                  \* history: per id, how many saves preceded its last deletion
    dbResult,                   \* what the last call of the service returned
    opsStarted                  \* how many operations the user has asked for

layoutVars == <<layoutPc, passNo, prevOut, sanitizedNodes, sanitizedLinks, leveling, warnings>>

validateVars == <<validated, validatePc>>

searchVars == <<searchQuery, highlightedNodeId, suggestions, sugPending, lastEvent>>

simVars == <<mounted, sims, simulationRef, gestures>>

mergeVars == <<graphData, expansionData, prevData, mergePc>>

appVars == <<isCurrentGraphSaved, isLoading, error, selectedNode, pendingAction,
             isUnsavedChangesModalOpen, isSaveModalOpen, savedGraphs, inFlight,
             expanding, saving, outcome, useDefaultModel, deferred, opsStarted>>

exportVars == <<scene, viewport, imgPending, downloads, consoleErrors, callerError,
                exportEvent, exportsStarted>>
dbVars == <<objectStore, keyGenerator, dbSaved, dbDeleted, dbResult>>
vars == <<data, layoutVars, validateVars, searchVars, simVars, mergeVars, appVars,
          exportVars, dbVars>>

----------------------------------------------------------------------------
(* Bounds of the model                                                     *)

MaxNodes == 3
MaxLinks == 2
MaxQueryLen == 3
MaxShort == 1
MaxPad == 11
MaxSearchNodes == 2
MaxSims == 2
MaxMergeNodes == 2
MaxMergeLinks == 1
MaxSaved == 1
MaxOps == 4
MaxExports == 1
MaxKeys == 3

----------------------------------------------------------------------------
(* Generic helpers                                                         *)

Range(s) == {s[i] : i \in DOMAIN s}

SeqsUpTo(S, n) == UNION {[1..k -> S] : k \in 0..n}

Undefined == "<undefined>"

Null == "<null>"

Min(a, b) == IF a < b THEN a ELSE b

----------------------------------------------------------------------------
(* Types (App.tsx:603-619)                                                 *)

Ids == {"", "a", "b", "c"}

MkNode(id) == [id |-> id, label |-> <<id>>]

MkLink(s, t) == [source |-> s, target |-> t, label |-> "rel"]

EmptyGraph == [nodes |-> <<>>, links |-> <<>>]

\* the 4-cycle of the root-determinism example
FourCycle ==
    [nodes |-> <<MkNode("A"), MkNode("B"), MkNode("C"), MkNode("D")>>,
     links |-> <<MkLink("A", "B"), MkLink("B", "C"), MkLink("C", "D"), MkLink("A", "D")>>]

\* the two components {A-B}, {C-D} of the disconnected-components example
TwoComponents ==
    [nodes |-> <<MkNode("A"), MkNode("B"), MkNode("C"), MkNode("D")>>,
     links |-> <<MkLink("A", "B"), MkLink("C", "D")>>]

\* a triangle with a tail: the root is not the first node
TailedTriangle ==
    [nodes |-> <<MkNode("A"), MkNode("B"), MkNode("C"), MkNode("D")>>,
     links |-> <<MkLink("B", "C"), MkLink("C", "D"), MkLink("D", "B"), MkLink("D", "A")>>]

\* a star around A and, apart from it, the path E - F - G
StarAndPath ==
    [nodes |-> <<MkNode("A"), MkNode("B"), MkNode("C"), MkNode("D"),
                 MkNode("E"), MkNode("F"), MkNode("G")>>,
     links |-> <<MkLink("A", "B"), MkLink("A", "C"), MkLink("A", "D"),
                 MkLink("E", "F"), MkLink("F", "G")>>]

ExampleGraphs == {FourCycle, TwoComponents, TailedTriangle, StarAndPath}

RawGraphs ==
    {[nodes |-> ns, links |-> ls] :
        ns \in SeqsUpTo({MkNode(i) : i \in Ids}, MaxNodes),
        ls \in SeqsUpTo({MkLink(s, t) : s \in Ids, t \in Ids}, MaxLinks)}
    \cup ExampleGraphs

----------------------------------------------------------------------------
(* Data sanitization (GraphVisualizer.tsx:131-148)                         *)

\* const nodeIds = new Set(data.nodes.map(n => n.id));
NodeIdSet(nodes) == {nodes[i].id : i \in DOMAIN nodes}

\* data.nodes.filter(n => n.id && nodeIds.has(n.id))
SanitizeNodes(d) ==
    LET nodeIds == NodeIdSet(d.nodes)
        Keep(n) == n.id # "" /\ n.id \in nodeIds
    IN  SelectSeq(d.nodes, Keep)

\* a node id is kept by the link filter when the RAW id set has it
SanitizeLinks(d) ==
    LET nodeIds == NodeIdSet(d.nodes)
        Keep(l) == l.source \in nodeIds /\ l.target \in nodeIds
    IN  SelectSeq(d.links, Keep)

\* the console.warn calls of the link filter (lines 139-141); the node filter
\* has none
SanitizeWarnings(d) ==
    LET nodeIds == NodeIdSet(d.nodes)
        Dropped(l) == ~(l.source \in nodeIds) \/ ~(l.target \in nodeIds)
        dropped == SelectSeq(d.links, Dropped)
    IN  [i \in DOMAIN dropped |->
            [kind |-> "link", source |-> dropped[i].source, target |-> dropped[i].target]]

----------------------------------------------------------------------------
(* Level assignment (GraphVisualizer.tsx:150-217)                          *)

\* adj.get(link.source)!.push(link.target); adj.get(link.target)!.push(link.source);
\* a link end with no adjacency entry makes .push throw a TypeError
RECURSIVE BuildAdj(_, _, _)
BuildAdj(links, i, adj) ==
    IF i > Len(links) THEN [threw |-> FALSE, adj |-> adj]
    ELSE LET s == links[i].source
             t == links[i].target
         IN  IF s \notin DOMAIN adj \/ t \notin DOMAIN adj
             THEN [threw |-> TRUE, adj |-> adj]
             ELSE LET a1 == [adj EXCEPT ![s] = Append(@, t)]
                      a2 == [a1 EXCEPT ![t] = Append(@, s)]
                  IN  BuildAdj(links, i + 1, a2)

\* levels.set(id, v) / Map.set in general
MapSet(m, k, v) == [x \in DOMAIN m \cup {k} |-> IF x = k THEN v ELSE m[x]]

NextLevelSkip(level) == level + 2

\* level + 1 of lines 179-180
NextLevel(level) == level + 1

\* the for-loop over the neighbours of one dequeued node (lines 176-182)
RECURSIVE VisitNeighbors(_, _, _, _)
VisitNeighbors(neighbors, i, level, st) ==
    IF i > Len(neighbors) THEN st
    ELSE LET neighborId == neighbors[i]
         IN  IF neighborId \in st.visited
             THEN VisitNeighbors(neighbors, i + 1, level, st)
             ELSE VisitNeighbors(neighbors, i + 1, level,
                    [queue   |-> Append(st.queue, [nodeId |-> neighborId, level |-> NextLevel(level)]),
                     visited |-> st.visited \cup {neighborId},
                     levels  |-> MapSet(st.levels, neighborId, NextLevel(level))])

\* while (head < queue.length) { ... }  (lines 172-183); head is 1-based here
RECURSIVE BfsLoop(_, _, _)
BfsLoop(adj, head, st) ==
    IF head > Len(st.queue) THEN st
    ELSE LET item == st.queue[head]
             neighbors == IF item.nodeId \in DOMAIN adj THEN adj[item.nodeId] ELSE <<>>
         IN  BfsLoop(adj, head + 1, VisitNeighbors(neighbors, 1, item.level, st))

BfsStartAtOne(adj, startNodeId, bs) ==
    IF startNodeId \in bs.visited THEN bs
    ELSE LET st == BfsLoop(adj, 1,
                     [queue   |-> <<[nodeId |-> startNodeId, level |-> 1]>>,
                      visited |-> bs.visited \cup {startNodeId},
                      levels  |-> MapSet(bs.levels, startNodeId, 1)])
         IN  [visited |-> st.visited, levels |-> st.levels,
              runs |-> Append(bs.runs, startNodeId)]

\* const bfs = (startNodeId) => { ... }  (lines 165-184); bs is the state the
\* closure shares between calls: visited, levels, and the list of the starts
\* of the runs that did not return early
Bfs(adj, startNodeId, bs) ==
    IF startNodeId \in bs.visited THEN bs
    ELSE LET st == BfsLoop(adj, 1,
                     [queue   |-> <<[nodeId |-> startNodeId, level |-> 0]>>,
                      visited |-> bs.visited \cup {startNodeId},
                      levels  |-> MapSet(bs.levels, startNodeId, 0)])
         IN  [visited |-> st.visited, levels |-> st.levels,
              runs |-> Append(bs.runs, startNodeId)]

\* insertion order of a Map filled by graphNodes.forEach(node => m.set(node.id, ...))
RECURSIVE KeyOrder(_, _, _)
KeyOrder(nodes, i, acc) ==
    IF i > Len(nodes) THEN acc
    ELSE KeyOrder(nodes, i + 1,
                  IF nodes[i].id \in Range(acc) THEN acc ELSE Append(acc, nodes[i].id))

\* sanitizedLinks.forEach(link => { degrees.set(source, +1); degrees.set(target, +1) })
RECURSIVE CountDegrees(_, _, _)
CountDegrees(links, i, degrees) ==
    IF i > Len(links) THEN degrees
    ELSE LET s == links[i].source
             t == links[i].target
             d1 == MapSet(degrees, s, (IF s \in DOMAIN degrees THEN degrees[s] ELSE 0) + 1)
             d2 == MapSet(d1, t, (IF t \in DOMAIN d1 THEN d1[t] ELSE 0) + 1)
         IN  CountDegrees(links, i + 1, d2)

\* lines 187-192
Degrees(graphNodes, links) ==
    CountDegrees(links, 1, [id \in NodeIdSet(graphNodes) |-> 0])

IsNewMaxOrEqual(degree, maxDegree) == degree >= maxDegree

\* if (degree > maxDegree)  (line 197)
IsNewMax(degree, maxDegree) == degree > maxDegree

\* degrees.forEach((degree, nodeId) => { ... })  (lines 194-201)
RECURSIVE FindRoot(_, _, _, _)
FindRoot(keys, degrees, i, acc) ==
    IF i > Len(keys) THEN acc.rootNodeId
    ELSE IF IsNewMax(degrees[keys[i]], acc.maxDegree)
         THEN FindRoot(keys, degrees, i + 1,
                       [rootNodeId |-> keys[i], maxDegree |-> degrees[keys[i]]])
         ELSE FindRoot(keys, degrees, i + 1, acc)

RootNodeId(graphNodes, links) ==
    FindRoot(KeyOrder(graphNodes, 1, <<>>), Degrees(graphNodes, links), 1,
             [rootNodeId |-> Undefined, maxDegree |-> -1])

\* graphNodes.forEach(node => { if (!visited.has(node.id)) bfs(node.id) })  (lines 208-212)
RECURSIVE LocalRoots(_, _, _, _)
LocalRoots(adj, nodes, i, bs) ==
    IF i > Len(nodes) THEN bs
    ELSE LocalRoots(adj, nodes, i + 1,
                    IF nodes[i].id \notin bs.visited THEN Bfs(adj, nodes[i].id, bs) ELSE bs)

NoLeveling == [threw |-> FALSE, levels |-> <<>>, rootNodeId |-> Undefined, runs |-> <<>>]

\* the whole of lines 152-217 for graphNodes and sanitizedLinks
AssignLevels(graphNodes, links) ==
    IF Len(graphNodes) = 0 THEN NoLeveling
    ELSE LET built == BuildAdj(links, 1, [id \in NodeIdSet(graphNodes) |-> <<>>])
         IN  IF built.threw
             THEN [threw |-> TRUE, levels |-> <<>>, rootNodeId |-> Undefined, runs |-> <<>>]
             ELSE LET root == RootNodeId(graphNodes, links)
                      bs0  == [visited |-> {}, levels |-> <<>>, runs |-> <<>>]
                      bs1  == IF root # Undefined /\ root # ""
                              THEN Bfs(built.adj, root, bs0) ELSE bs0
                      bs2  == LocalRoots(built.adj, graphNodes, 1, bs1)
                  IN  [threw |-> FALSE, levels |-> bs2.levels,
                       rootNodeId |-> root, runs |-> bs2.runs]

\* an undefined level (levels.get of an id that was never set)
NoLevel == -1

\* node.level = levels.get(node.id)  (line 215)
NodeLevel(lv, n) == IF n.id \in DOMAIN lv.levels THEN lv.levels[n.id] ELSE NoLevel

LayoutIdle ==
    /\ layoutPc = "input"
    /\ passNo = 1
    /\ prevOut = EmptyGraph
    /\ sanitizedNodes = <<>>
    /\ sanitizedLinks = <<>>
    /\ leveling = NoLeveling
    /\ warnings = <<>>

ValidateIdle ==
    /\ validated = [nodes |-> <<>>, links |-> <<>>, warnings |-> <<>>]
    /\ validatePc = "idle"

----------------------------------------------------------------------------
(* Force simulation and drag (GraphVisualizer.tsx:276-335).  A simulation  *)
(* is d3's: a timer that ticks while it runs, alpha moving toward          *)
(* alphaTarget on every tick, the timer stopping once alpha is below       *)
(* alphaMin.  Alpha is kept in three steps: 0 is below alphaMin, 1 is the  *)
(* drag target 0.3, 2 is the initial 1.  A position (x, y) or pin (fx, fy)  *)
(* is one point of Points; the code always assigns the two coordinates     *)
(* together.                                                               *)

\* d3.forceSimulation(...) starts with alpha = 1
AlphaInitial == 2

\* sim.alphaTarget(0.3)
AlphaDragTarget == 1

\* fx = fy = null
NoPin == -1

\* two places on the canvas are enough to tell a moved node from an unmoved one
Points == {0, 1}

\* d3 lays new nodes out on a fixed spiral
InitialPoint == 0

\* d3-drag's gesture identifiers: one per touch (the mouse is one more, "mouse")
Pointers == {"touch1", "touch2"}

NoGesture == [sim |-> 0, node |-> Null]

SimIdle ==
    /\ mounted = FALSE
    /\ sims = <<>>
    /\ simulationRef = 0
    /\ gestures = [p \in Pointers |-> NoGesture]

\* d3.forceSimulation<GraphNode>(graphNodes)...  (lines 280-284)
NewSimulation(graphNodes) ==
    [running     |-> TRUE,
     alpha       |-> AlphaInitial,
     alphaTarget |-> 0,
     nodes       |-> [id \in NodeIdSet(graphNodes) |-> [pos |-> InitialPoint, pin |-> NoPin]]]

StopSimForgotten(sim) == sim

\* simulation.stop()  (lines 277, 332)
StopSim(sim) == [sim EXCEPT !.running = FALSE]

\* simulation.restart()
RestartSim(sim) == [sim EXCEPT !.running = TRUE]

\* the sims with instance k stopped, when there is such an instance
StopAt(ss, k) == IF k \in DOMAIN ss THEN [ss EXCEPT ![k] = StopSim(@)] ELSE ss

\* event.active at "start" (before this gesture is counted) and at "end" (after
\* it is removed): the other gestures of the same drag behaviour, and there is
\* one drag behaviour per simulation (line 322)
ActiveOthers(k, p) == Cardinality({q \in Pointers \ {p} : gestures[q].sim = k})

\* the body of the main effect from line 131 on, for a component whose
\* current ref is ref: sanitize, level, and unless that threw, stop the
\* simulation the ref holds and build the new one
EffectBody(d, ss, ref) ==
    LET graphNodes == SanitizeNodes(d)
        lv == AssignLevels(graphNodes, SanitizeLinks(d))
    IN  IF lv.threw
        THEN [threw |-> TRUE, sims |-> ss, ref |-> ref]
        ELSE [threw |-> FALSE,
              sims  |-> Append(StopAt(ss, ref), NewSimulation(graphNodes)),
              ref   |-> Len(ss) + 1]

\* graphs handed to the visualizer in the simulation model
PairGraph == [nodes |-> <<MkNode("a"), MkNode("b")>>, links |-> <<MkLink("a", "b")>>]

DanglingGraph == [nodes |-> <<MkNode(""), MkNode("a")>>, links |-> <<MkLink("", "a")>>]

SimGraphs == {PairGraph, DanglingGraph}

----------------------------------------------------------------------------
(* Expansion merge (App.tsx:333-357).  The link key is built by string     *)
(* concatenation, so ids and link labels are sequences of characters here. *)

\* graphData === null
NoGraph == [null |-> TRUE]

MergeIdle ==
    /\ graphData = NoGraph
    /\ expansionData = EmptyGraph
    /\ prevData = NoGraph
    /\ mergePc = "idle"

\* selectedNode === null, no expansion awaiting
NoNode == [null |-> TRUE]

\* the displayed graph and its flag, as an operation found them
Snapshot(g, saved) == [graphData |-> g, saved |-> saved]

\* what handleGenerateGraph is called with: which arguments are non-empty
NoInput == [topic |-> FALSE, customText |-> FALSE, files |-> FALSE]

\* alone: no other operation has changed the display since this one began;
\* via: what called the async function
NoOp ==
    [running |-> FALSE, alone |-> TRUE, before |-> Snapshot(NoGraph, TRUE), via |-> "none",
     useDefault |-> TRUE, input |-> NoInput]

\* pendingAction === null
NoAction == [kind |-> "none", req |-> 0, useDefault |-> TRUE, input |-> NoInput]

NoDeferred == [req |-> 0, decided |-> "none", runs |-> 0]

NoSave == [null |-> TRUE]

NoOutcome ==
    [op |-> "none", result |-> "none", alone |-> TRUE, before |-> Snapshot(NoGraph, TRUE),
     useDefault |-> TRUE, input |-> NoInput, node |-> NoNode]

\* the awaiting operations, after another operation changed the display
Disturbed(ops) ==
    [k \in DOMAIN ops |-> IF ops[k].running THEN [ops[k] EXCEPT !.alone = FALSE] ELSE ops[k]]

\* the App after construction (useState initial values, lines 74-100)
AppIdle ==
    /\ isCurrentGraphSaved = TRUE
    /\ isLoading = FALSE
    /\ error = Null
    /\ selectedNode = NoNode
    /\ pendingAction = NoAction
    /\ isUnsavedChangesModalOpen = FALSE
    /\ isSaveModalOpen = FALSE
    /\ savedGraphs = {}
    /\ inFlight = [generate |-> NoOp, import |-> NoOp]
    /\ expanding = NoNode
    /\ saving = NoSave
    /\ outcome = NoOutcome
    /\ useDefaultModel = TRUE
    /\ deferred = NoDeferred
    /\ opsStarted = 0

NoExportEvent ==
    [kind |-> "none", scene |-> Null, viewport |-> Null, downloads |-> <<>>,
     consoleErrors |-> <<>>, callerError |-> FALSE]

\* the visualizer before anything is exported
ExportIdle ==
    /\ scene = [positions |-> 0, transform |-> 0, graph |-> 0, loneSurrogate |-> FALSE]
    /\ viewport = [width |-> 1, height |-> 1]
    /\ imgPending = <<>>
    /\ downloads = <<>>
    /\ consoleErrors = <<>>
    /\ callerError = FALSE
    /\ exportEvent = NoExportEvent
    /\ exportsStarted = 0

\* the store after onupgradeneeded (dbService.ts:12-19): empty, keys from 1
DbIdle ==
    /\ objectStore = {}
    /\ keyGenerator = 1
    /\ dbSaved = <<>>
    /\ dbDeleted = [id \in 1..MaxKeys |-> 0]
    /\ dbResult = [op |-> "none", value |-> Null]

\* `${link.source}-${link.target}-${link.label}`
LinkKey(link) == link.source \o <<"-">> \o link.target \o <<"-">> \o link.label

\* Array.from(new Map(entries).values()): a key keeps the place of its first
\* entry and the value of its last
RECURSIVE MapFromEntries(_, _, _)
MapFromEntries(links, i, entries) ==
    IF i > Len(links) THEN entries
    ELSE LET key == LinkKey(links[i])
             at  == {j \in DOMAIN entries : entries[j].key = key}
         IN  MapFromEntries(links, i + 1,
                IF at = {} THEN Append(entries, [key |-> key, value |-> links[i]])
                ELSE [entries EXCEPT ![CHOOSE j \in at : TRUE].value = links[i]])

UniqueLinks(combinedLinks) ==
    LET entries == MapFromEntries(combinedLinks, 1, <<>>)
    IN  [j \in DOMAIN entries |-> entries[j].value]

\* newNode => !existingNodeIds.has(newNode.id)  (line 338)
IsNewNode(existingNodeIds, newNode) == newNode.id \notin existingNodeIds

\* the updater passed to setGraphData (lines 333-357)
MergeExpansion(prev, expansion) ==
    IF prev = NoGraph THEN NoGraph
    ELSE LET existingNodeIds == NodeIdSet(prev.nodes)
             Fresh(newNode)  == IsNewNode(existingNodeIds, newNode)
             uniqueNewNodes  == SelectSeq(expansion.nodes, Fresh)
             combinedNodes   == prev.nodes \o uniqueNewNodes
             combinedLinks   == prev.links \o expansion.links
         IN  [nodes |-> combinedNodes, links |-> UniqueLinks(combinedLinks)]

----------------------------------------------------------------------------
(* Inputs of the merge model                                               *)

IdA == <<"A">>
IdB == <<"B">>
IdE == <<"E">>

\* ids in kebab case
IdAB == <<"A", "-", "B">>

IdBE == <<"B", "-", "E">>

\* the nodes of the displayed graph and the nodes an expansion returns differ
\* in their labels, also when they share an id
OldNode(id) == [id |-> id, label |-> <<"o">>]

NewNode(id) == [id |-> id, label |-> <<"n">>]

RelLink(s, t) == [source |-> s, target |-> t, label |-> <<"r">>]

NoRepeat(seq) == \A i \in DOMAIN seq, j \in DOMAIN seq : i # j => seq[i] # seq[j]

\* displayed graphs: ids A, B, B-E, no id twice
ExistingGraphs ==
    {[nodes |-> [i \in DOMAIN ids |-> OldNode(ids[i])], links |-> ls] :
        ids \in {q \in SeqsUpTo({IdA, IdB, IdBE}, MaxMergeNodes) : NoRepeat(q)},
        ls \in SeqsUpTo({RelLink(IdA, IdB), RelLink(IdB, IdA), RelLink(IdA, IdBE)},
                        MaxMergeLinks)}

\* expansion results: nodes with ids B, E, A-B in any number and order
ExpansionGraphs ==
    {[nodes |-> [i \in DOMAIN ids |-> NewNode(ids[i])], links |-> ls] :
        ids \in SeqsUpTo({IdB, IdE, IdAB}, MaxMergeNodes),
        ls \in SeqsUpTo({RelLink(IdA, IdB), RelLink(IdB, IdE), RelLink(IdE, IdE),
                         RelLink(IdAB, IdE)}, MaxMergeLinks)}

----------------------------------------------------------------------------
(* Strings as sequences of characters                                      *)

UpperChars == <<"A", "B", "C", "D", "E", "F", "G", "H", "I", "J", "K", "L", "M",
                "N", "O", "P", "Q", "R", "S", "T", "U", "V", "W", "X", "Y", "Z">>

LowerChars == <<"a", "b", "c", "d", "e", "f", "g", "h", "i", "j", "k", "l", "m",
                "n", "o", "p", "q", "r", "s", "t", "u", "v", "w", "x", "y", "z">>

ToLowerChar(c) ==
    IF \E i \in DOMAIN UpperChars : UpperChars[i] = c
    THEN LowerChars[CHOOSE i \in DOMAIN UpperChars : UpperChars[i] = c]
    ELSE c

\* String.prototype.toLowerCase
ToLowerCase(str) == [i \in DOMAIN str |-> ToLowerChar(str[i])]

IsWhiteSpace(c) == c = " "

\* String.prototype.trim
RECURSIVE Trim(_)
Trim(str) ==
    IF Len(str) = 0 THEN str
    ELSE IF IsWhiteSpace(Head(str)) THEN Trim(Tail(str))
    ELSE IF IsWhiteSpace(str[Len(str)]) THEN Trim(SubSeq(str, 1, Len(str) - 1))
    ELSE str

\* String.prototype.includes
Includes(str, sub) ==
    \E k \in 0..(Len(str) - Len(sub)) : SubSeq(str, k + 1, k + Len(sub)) = sub

\* Array.prototype.slice(0, n)
SliceFirst(arr, n) == SubSeq(arr, 1, Min(n, Len(arr)))

----------------------------------------------------------------------------
(* Search and suggestions (GraphVisualizer.tsx:88-117)                     *)

\* .slice(0, 10)
MaxSuggestions == 10

KeepSuggestionNoExclusion(node, query) ==
    Includes(ToLowerCase(node.label), query)

\* node.label.toLowerCase().includes(query) && node.label.toLowerCase() !== query
KeepSuggestion(node, query) ==
    /\ Includes(ToLowerCase(node.label), query)
    /\ ToLowerCase(node.label) # query

\* the value the suggestions effect passes to setSuggestions (lines 89-97)
ComputeSuggestions(nodes, q) ==
    IF Trim(q) = <<>> THEN <<>>
    ELSE LET query == ToLowerCase(Trim(q))
             Keep(node) == KeepSuggestion(node, query)
         IN  SliceFirst(SelectSeq(nodes, Keep), MaxSuggestions)

\* if (highlightedNodeId) ...: null and the empty string are falsy
Truthy(id) == id # Null /\ id # ""

NoEvent == [type |-> "none", node |-> Null]

SearchIdle ==
    /\ searchQuery = <<>>
    /\ highlightedNodeId = Null
    /\ suggestions = <<>>
    /\ sugPending = FALSE
    /\ lastEvent = NoEvent

----------------------------------------------------------------------------
(* Inputs of the search model                                              *)

LabelCa  == <<"C", "a">>
LabelCab == <<"C", "a", "b">>
LabelB   == <<"b">>
LabelASp == <<"a", " ">>

LabelPool == {LabelCa, LabelCab, LabelB, LabelASp}

QueryChars == {"c", "A", " "}

Queries == SeqsUpTo(QueryChars, MaxQueryLen)

\* ids by position in the node list
IdTable == <<"n1", "n2", "n3", "n4", "n5", "n6", "n7", "n8", "n9", "n10", "n11", "n12",
             "n13", "n14", "n15", "n16", "n17", "n18", "n19", "n20">>

LabelledNodes(labels) == [i \in DOMAIN labels |-> [id |-> IdTable[i], label |-> labels[i]]]

\* a few arbitrary labels followed by copies of one label
PaddedLabelLists ==
    {s \o [i \in 1..n |-> l] : s \in SeqsUpTo(LabelPool, MaxShort), l \in LabelPool, n \in 0..MaxPad}

\* the graphs of the search box model
SearchGraphs ==
    {[nodes |-> LabelledNodes(ls), links |-> <<>>] : ls \in SeqsUpTo(LabelPool, MaxSearchNodes)}

SuggestGraphs == {[nodes |-> LabelledNodes(ls), links |-> <<>>] : ls \in PaddedLabelLists}

----------------------------------------------------------------------------
(* The layout specification: the sanitize-and-level part of the main       *)
(* effect applied to a raw graph, then once more to its own output         *)

InitLayout ==
    /\ data \in RawGraphs
    /\ layoutPc = "input"
    /\ passNo = 1
    /\ prevOut = EmptyGraph
    /\ sanitizedNodes = <<>>
    /\ sanitizedLinks = <<>>
    /\ leveling = NoLeveling
    /\ warnings = <<>>
    /\ SearchIdle
    /\ SimIdle
    /\ MergeIdle
    /\ ValidateIdle
    /\ AppIdle
    /\ ExportIdle
    /\ DbIdle

\* lines 131-217 of the main effect
SanitizeAndLevel ==
    /\ layoutPc = "input"
    /\ sanitizedNodes' = SanitizeNodes(data)
    /\ sanitizedLinks' = SanitizeLinks(data)
    /\ leveling' = AssignLevels(SanitizeNodes(data), SanitizeLinks(data))
    /\ warnings' = SanitizeWarnings(data)
    /\ layoutPc' = "done"
    /\ UNCHANGED <<data, passNo, prevOut>>
    /\ UNCHANGED <<searchVars, simVars, mergeVars, validateVars, appVars, exportVars, dbVars>>

\* the sanitized graph is handed to the sanitizer again
FeedBack ==
    /\ layoutPc = "done"
    /\ passNo = 1
    /\ prevOut' = [nodes |-> sanitizedNodes, links |-> sanitizedLinks]
    /\ data' = [nodes |-> sanitizedNodes, links |-> sanitizedLinks]
    /\ passNo' = 2
    /\ layoutPc' = "input"
    /\ UNCHANGED <<sanitizedNodes, sanitizedLinks, leveling, warnings>>
    /\ UNCHANGED <<searchVars, simVars, mergeVars, validateVars, appVars, exportVars, dbVars>>

NextLayout == SanitizeAndLevel \/ FeedBack

SpecLayout == InitLayout /\ [][NextLayout]_vars

----------------------------------------------------------------------------
(* Import validation (importService validateGraphData, part_003:15-44)     *)

\* the characters of a node id
IdChars(id) == IF id = "" THEN <<>> ELSE <<id>>

\* node && typeof node.id === 'string' && node.id.trim().length > 0, for the
\* characters of the id
HasNonBlankId(idChars) == Len(Trim(idChars)) > 0

\* validateGraphData, given the characters of the id of each node
ValidateNodesLinks(nodes, links, chars) ==
    LET entries    == [i \in DOMAIN nodes |-> [node |-> nodes[i], valid |-> HasNonBlankId(chars[i])]]
        IsValid(e) == e.valid
        Invalid(e) == ~e.valid
        kept       == SelectSeq(entries, IsValid)
        dropped    == SelectSeq(entries, Invalid)
        validNodes == [i \in DOMAIN kept |-> kept[i].node]
        badNodes   == [i \in DOMAIN dropped |-> dropped[i].node]
        nodeIds    == NodeIdSet(validNodes)
        Keep(l)    == l.source \in nodeIds /\ l.target \in nodeIds
        Missing(l) == ~Keep(l)
        badLinks   == SelectSeq(links, Missing)
    IN  [nodes    |-> validNodes,
         links    |-> SelectSeq(links, Keep),
         warnings |-> [i \in DOMAIN badNodes |-> [kind |-> "node", id |-> badNodes[i].id]]
                      \o [i \in DOMAIN badLinks |->
                            [kind |-> "link", source |-> badLinks[i].source,
                             target |-> badLinks[i].target]]]

ValidateGraphData(nodes, links) ==
    ValidateNodesLinks(nodes, links, [i \in DOMAIN nodes |-> IdChars(nodes[i].id)])

\* ids that are empty, blank and ordinary
BlankIds == {"", " ", "a"}

ValidatorInputs ==
    {[nodes |-> ns, links |-> ls] :
        ns \in SeqsUpTo({MkNode(i) : i \in BlankIds}, MaxNodes),
        ls \in SeqsUpTo({MkLink(s, t) : s \in BlankIds, t \in BlankIds}, MaxLinks)}

----------------------------------------------------------------------------
(* The validation specification: one raw graph goes through the import     *)
(* validator and through the visualizer's sanitizer                        *)

InitValidate ==
    /\ data \in ValidatorInputs
    /\ LayoutIdle
    /\ validated = [nodes |-> <<>>, links |-> <<>>, warnings |-> <<>>]
    /\ validatePc = "input"
    /\ AppIdle
    /\ ExportIdle
    /\ DbIdle
    /\ SearchIdle
    /\ SimIdle
    /\ MergeIdle

\* validateGraphData(data.nodes, data.links, importType)
Validate ==
    /\ validatePc = "input"
    /\ validated' = ValidateGraphData(data.nodes, data.links)
    /\ validatePc' = "done"
    /\ UNCHANGED data
    /\ UNCHANGED <<layoutVars, searchVars, simVars, mergeVars, appVars, exportVars, dbVars>>

NextValidate == Validate \/ SanitizeAndLevel

SpecValidate == InitValidate /\ [][NextValidate]_vars

----------------------------------------------------------------------------
(* Services behind the App's operations                                    *)

\* the ids of the App's graphs are kept as their characters
IdsOfNodes(nodes) == [i \in DOMAIN nodes |-> nodes[i].id]

\* the validation at the end of generateGraphData (geminiService.ts:112-127,
\* 265-293): the same filters as validateGraphData
GenerateResult(parsedData) ==
    LET v == ValidateNodesLinks(parsedData.nodes, parsedData.links, IdsOfNodes(parsedData.nodes))
    IN  [nodes |-> v.nodes, links |-> v.links]

\* importService.parseJson (part_003:47-53) on a file's content
ParseJson(content) ==
    IF ~content.isJson \/ ~content.hasArrays
    THEN [threw |-> TRUE, data |-> NoGraph]
    ELSE LET v == ValidateNodesLinks(content.nodes, content.links, IdsOfNodes(content.nodes))
         IN  [threw |-> FALSE, data |-> [nodes |-> v.nodes, links |-> v.links]]

\* the switch on the file extension in importFn (App.tsx:272-284)
ImportResult(file) ==
    IF file.extension = "json" THEN ParseJson(file.content)
    ELSE [threw |-> TRUE, data |-> NoGraph]

\* the validation at the end of expandGraphFromNode (geminiService.ts:339-371)
ExpandResult(sourceNode, parsedData) ==
    LET Valid(n)      == HasNonBlankId(n.id)
        validNewNodes == SelectSeq(parsedData.nodes, Valid)
        validNodeIds  == NodeIdSet(validNewNodes) \cup {sourceNode.id}
        Keep(l)       == l.source \in validNodeIds /\ l.target \in validNodeIds
    IN  IF Len(validNewNodes) = 0 THEN [threw |-> TRUE, data |-> NoGraph]
        ELSE [threw |-> FALSE,
              data  |-> [nodes |-> validNewNodes, links |-> SelectSeq(parsedData.links, Keep)]]

\* generateGraphData (geminiService.ts:131-144, 265-293); failed: PortKey is
\* not configured, the request fails or the answer has no nodes and links
GenerateGraphData(input, useDefault, failed, parsedData) ==
    IF ~useDefault /\ input.topic THEN [threw |-> TRUE, data |-> NoGraph]
    ELSE IF ~useDefault /\ input.files THEN [threw |-> TRUE, data |-> NoGraph]
    ELSE IF failed THEN [threw |-> TRUE, data |-> NoGraph]
    ELSE [threw |-> FALSE, data |-> GenerateResult(parsedData)]

\* expandGraphFromNode (geminiService.ts:297-371)
ExpandGraphFromNode(sourceNode, useDefault, parsedData) ==
    IF ~useDefault THEN [threw |-> TRUE, data |-> NoGraph]
    ELSE ExpandResult(sourceNode, parsedData)

\* the input panel's submissions: a topic, a text, files
GenerateInputs ==
    {[NoInput EXCEPT !.topic = TRUE], [NoInput EXCEPT !.customText = TRUE],
     [NoInput EXCEPT !.files = TRUE]}

\* what the model answers to a generation request
Responses ==
    {[nodes |-> <<OldNode(IdA), OldNode(IdB)>>,
      links |-> <<RelLink(IdA, IdB), RelLink(IdA, IdE)>>]}

\* what the model answers to the expansion of sourceNode
ExpansionResponses(sourceNode) ==
    {[nodes |-> <<NewNode(IdE)>>, links |-> <<RelLink(sourceNode.id, IdE), RelLink(IdB, IdE)>>],
     [nodes |-> <<>>, links |-> <<>>]}

\* the files the user picks
ImportFiles ==
    {[extension |-> "json",
      content |-> [isJson |-> TRUE, hasArrays |-> TRUE,
                   nodes |-> <<OldNode(IdE), OldNode(<<" ">>)>>,
                   links |-> <<RelLink(IdE, IdE), RelLink(IdE, <<" ">>)>>]],
     [extension |-> "json",
      content |-> [isJson |-> TRUE, hasArrays |-> FALSE, nodes |-> <<>>, links |-> <<>>]],
     [extension |-> "png",
      content |-> [isJson |-> FALSE, hasArrays |-> FALSE, nodes |-> <<>>, links |-> <<>>]]}

----------------------------------------------------------------------------
(* The suggestion specification                                            *)

\* useEffect(..., [searchQuery, data.nodes])  (lines 88-98)
SuggestionsEffect ==
    /\ sugPending
    /\ suggestions' = ComputeSuggestions(data.nodes, searchQuery)
    /\ sugPending' = FALSE
    /\ UNCHANGED <<data, searchQuery, highlightedNodeId, lastEvent>>
    /\ UNCHANGED <<layoutVars, simVars, mergeVars, validateVars, appVars, exportVars, dbVars>>

\* the suggestions effect applied once to a node list and a query
InitSuggest ==
    /\ data \in SuggestGraphs
    /\ searchQuery \in Queries
    /\ highlightedNodeId = Null
    /\ suggestions = <<>>
    /\ sugPending = TRUE
    /\ lastEvent = NoEvent
    /\ LayoutIdle
    /\ SimIdle
    /\ MergeIdle
    /\ ValidateIdle
    /\ AppIdle
    /\ ExportIdle
    /\ DbIdle

NextSuggest == SuggestionsEffect

SpecSuggest == InitSuggest /\ [][NextSuggest]_vars

----------------------------------------------------------------------------
(* The search box specification.  React runs the effects of a render       *)
(* before it handles the next input event, so the handlers wait for the    *)
(* scheduled suggestions effect.                                           *)

InitSearch ==
    /\ data \in SearchGraphs
    /\ searchQuery = <<>>
    /\ highlightedNodeId = Null
    /\ suggestions = <<>>
    /\ sugPending = TRUE
    /\ lastEvent = NoEvent
    /\ LayoutIdle
    /\ SimIdle
    /\ MergeIdle
    /\ ValidateIdle
    /\ AppIdle
    /\ ExportIdle
    /\ DbIdle

\* handleSearchChange (GraphVisualizer.tsx:100-105)
SearchChange(value) ==
    /\ ~sugPending
    /\ searchQuery' = value
    /\ highlightedNodeId' = IF Truthy(highlightedNodeId) THEN Null ELSE highlightedNodeId
    /\ sugPending' = (value # searchQuery)
    /\ lastEvent' = [type |-> "change", node |-> Null]
    /\ UNCHANGED <<data, suggestions>>
    /\ UNCHANGED <<layoutVars, simVars, mergeVars, validateVars, appVars, exportVars, dbVars>>

\* handleClearSearch (lines 107-111); the button is rendered when searchQuery is not empty
ClearSearch ==
    /\ ~sugPending
    /\ searchQuery # <<>>
    /\ searchQuery' = <<>>
    /\ highlightedNodeId' = Null
    /\ suggestions' = <<>>
    /\ sugPending' = TRUE
    /\ lastEvent' = [type |-> "clear", node |-> Null]
    /\ UNCHANGED data
    /\ UNCHANGED <<layoutVars, simVars, mergeVars, validateVars, appVars, exportVars, dbVars>>

\* handleSuggestionClick (lines 113-117) on the i-th entry of the rendered list
SuggestionClick(i) ==
    /\ ~sugPending
    /\ i \in DOMAIN suggestions
    /\ searchQuery' = suggestions[i].label
    /\ highlightedNodeId' = suggestions[i].id
    /\ suggestions' = <<>>
    /\ sugPending' = (suggestions[i].label # searchQuery)
    /\ lastEvent' = [type |-> "select", node |-> suggestions[i]]
    /\ UNCHANGED data
    /\ UNCHANGED <<layoutVars, simVars, mergeVars, validateVars, appVars, exportVars, dbVars>>

\* graphData is replaced by another graph (a load, a merge): the App's effect
\* on graphData (App.tsx:136-154) resets the query, and the visualizer's data
\* prop changes
ReplaceGraph(d) ==
    /\ ~sugPending
    /\ d # data
    /\ data' = d
    /\ searchQuery' = <<>>
    /\ sugPending' = TRUE
    /\ lastEvent' = [type |-> "replace", node |-> Null]
    /\ UNCHANGED <<highlightedNodeId, suggestions>>
    /\ UNCHANGED <<layoutVars, simVars, mergeVars, validateVars, appVars, exportVars, dbVars>>

NextSearch ==
    \/ \E value \in Queries : SearchChange(value)
    \/ ClearSearch
    \/ \E d \in SearchGraphs : ReplaceGraph(d)
    \/ \E i \in 1..MaxSuggestions : SuggestionClick(i)
    \/ SuggestionsEffect

SpecSearch == InitSearch /\ [][NextSearch]_vars

----------------------------------------------------------------------------
(* The simulation specification: mounts, re-runs of the main effect (new   *)
(* data, new theme), clicks, drags, ticks and unmount                      *)

InitSim ==
    /\ data = EmptyGraph
    /\ SimIdle
    /\ LayoutIdle
    /\ SearchIdle
    /\ MergeIdle
    /\ ValidateIdle
    /\ AppIdle
    /\ ExportIdle
    /\ DbIdle

\* an error thrown by an effect unmounts the whole tree (no error boundary)
AfterEffect(d, res) ==
    /\ data' = d
    /\ sims' = res.sims
    /\ mounted' = ~res.threw
    /\ simulationRef' = IF res.threw THEN 0 ELSE res.ref
    /\ UNCHANGED gestures
    /\ UNCHANGED <<layoutVars, searchVars, mergeVars, validateVars, appVars, exportVars, dbVars>>

\* the component is mounted with data d and its main effect runs (lines 120-335)
Mount(d) ==
    /\ ~mounted
    /\ Len(sims) < MaxSims
    /\ AfterEffect(d, EffectBody(d, sims, 0))

\* data, theme or onNodeClick changed: the cleanup of the previous run
\* (lines 331-333) and then the effect body
Rerender(d) ==
    /\ mounted
    /\ Len(sims) < MaxSims
    /\ AfterEffect(d, EffectBody(d, StopAt(sims, simulationRef), simulationRef))

\* the component is unmounted: the cleanup runs (lines 331-333)
Unmount ==
    /\ mounted
    /\ mounted' = FALSE
    /\ sims' = StopAt(sims, simulationRef)
    /\ simulationRef' = 0
    /\ UNCHANGED <<data, gestures>>
    /\ UNCHANGED <<layoutVars, searchVars, mergeVars, validateVars, appVars, exportVars, dbVars>>

\* .on("click", ...)  (lines 255-260) on a rendered node
NodeClick(n) ==
    /\ mounted
    /\ simulationRef \in DOMAIN sims
    /\ n \in DOMAIN sims[simulationRef].nodes
    /\ sims' = [sims EXCEPT ![simulationRef] = RestartSim([@ EXCEPT !.alphaTarget = 0])]
    /\ UNCHANGED <<data, mounted, simulationRef, gestures>>
    /\ UNCHANGED <<layoutVars, searchVars, mergeVars, validateVars, appVars, exportVars, dbVars>>

\* dragstarted (lines 305-309): pointer p goes down on the rendered node n
DragStarted(p, n) ==
    /\ mounted
    /\ simulationRef \in DOMAIN sims
    /\ gestures[p] = NoGesture
    /\ n \in DOMAIN sims[simulationRef].nodes
    /\ LET k  == simulationRef
           s1 == IF ActiveOthers(k, p) = 0
                 THEN RestartSim([sims[k] EXCEPT !.alphaTarget = AlphaDragTarget])
                 ELSE sims[k]
       IN  sims' = [sims EXCEPT ![k] = [s1 EXCEPT !.nodes[n].pin = s1.nodes[n].pos]]
    /\ gestures' = [gestures EXCEPT ![p] = [sim |-> simulationRef, node |-> n]]
    /\ UNCHANGED <<data, mounted, simulationRef>>
    /\ UNCHANGED <<layoutVars, searchVars, mergeVars, validateVars, appVars, exportVars, dbVars>>

\* dragged (lines 310-313): pointer p moves to pt
Dragged(p, pt) ==
    /\ gestures[p] # NoGesture
    /\ LET g == gestures[p]
       IN  sims' = [sims EXCEPT ![g.sim].nodes[g.node].pin = pt]
    /\ UNCHANGED <<data, mounted, simulationRef, gestures>>
    /\ UNCHANGED <<layoutVars, searchVars, mergeVars, validateVars, appVars, exportVars, dbVars>>

\* dragended (lines 314-318): pointer p goes up
DragEnded(p) ==
    /\ gestures[p] # NoGesture
    /\ LET g  == gestures[p]
           s1 == IF ActiveOthers(g.sim, p) = 0
                 THEN [sims[g.sim] EXCEPT !.alphaTarget = 0]
                 ELSE sims[g.sim]
       IN  sims' = [sims EXCEPT ![g.sim] = [s1 EXCEPT !.nodes[g.node].pin = NoPin]]
    /\ gestures' = [gestures EXCEPT ![p] = NoGesture]
    /\ UNCHANGED <<data, mounted, simulationRef>>
    /\ UNCHANGED <<layoutVars, searchVars, mergeVars, validateVars, appVars, exportVars, dbVars>>

AlphaStepNoDecay(alpha, target) == IF alpha < target THEN alpha + 1 ELSE alpha

\* one step of alpha toward alphaTarget
AlphaStep(alpha, target) ==
    IF alpha < target THEN alpha + 1 ELSE IF alpha > target THEN alpha - 1 ELSE alpha

\* one tick of the running simulation k: alpha moves, a pinned node sits on
\* its pin, the forces move the free nodes (here: at most one of them, anywhere),
\* and the timer stops once alpha is below alphaMin
Tick(k) ==
    /\ k \in DOMAIN sims
    /\ sims[k].running
    /\ \E moved \in DOMAIN sims[k].nodes, pt \in Points :
          LET a == AlphaStep(sims[k].alpha, sims[k].alphaTarget)
              Place(id) ==
                  LET nd == sims[k].nodes[id]
                  IN  IF nd.pin # NoPin THEN [nd EXCEPT !.pos = nd.pin]
                      ELSE IF id = moved THEN [nd EXCEPT !.pos = pt]
                      ELSE nd
          IN  sims' = [sims EXCEPT ![k] =
                         [running     |-> a > 0,
                          alpha       |-> a,
                          alphaTarget |-> sims[k].alphaTarget,
                          nodes       |-> [id \in DOMAIN sims[k].nodes |-> Place(id)]]]
    /\ UNCHANGED <<data, mounted, simulationRef, gestures>>
    /\ UNCHANGED <<layoutVars, searchVars, mergeVars, validateVars, appVars, exportVars, dbVars>>

NextSim ==
    \/ \E d \in SimGraphs : Mount(d)
    \/ \E d \in SimGraphs : Rerender(d)
    \/ Unmount
    \/ \E n \in Ids : NodeClick(n)
    \/ \E p \in Pointers, n \in Ids : DragStarted(p, n)
    \/ \E p \in Pointers, pt \in Points : Dragged(p, pt)
    \/ \E p \in Pointers : DragEnded(p)
    \/ \E k \in 1..MaxSims : Tick(k)

SpecSim == InitSim /\ [][NextSim]_vars

\* d3's timer calls the tick function of a running simulation again and again
AnyTick == \E k \in 1..MaxSims : Tick(k)

SpecSimTimer == InitSim /\ [][NextSim]_vars /\ WF_vars(AnyTick)

----------------------------------------------------------------------------
(* The merge specification: the updater of handleExpandNode applied to a   *)
(* displayed graph (or to null) and an expansion result                    *)

InitMerge ==
    /\ data = EmptyGraph
    /\ graphData \in ExistingGraphs \cup {NoGraph}
    /\ expansionData \in ExpansionGraphs
    /\ prevData = NoGraph
    /\ mergePc = "pending"
    /\ ValidateIdle
    /\ AppIdle
    /\ ExportIdle
    /\ DbIdle
    /\ LayoutIdle
    /\ SearchIdle
    /\ SimIdle

\* setGraphData(prevData => { ... })  (App.tsx:333-357)
ApplyMerge ==
    /\ mergePc = "pending"
    /\ prevData' = graphData
    /\ graphData' = MergeExpansion(graphData, expansionData)
    /\ mergePc' = "merged"
    /\ UNCHANGED <<data, expansionData>>
    /\ UNCHANGED <<layoutVars, searchVars, simVars, validateVars, appVars, exportVars, dbVars>>

NextMerge == ApplyMerge

SpecMerge == InitMerge /\ [][NextMerge]_vars

----------------------------------------------------------------------------
(* The App specification: generate, import, load, save and expand, with    *)
(* their awaits, and the two dialogs                                       *)

InitApp ==
    /\ data = EmptyGraph
    /\ graphData = NoGraph
    /\ expansionData = EmptyGraph
    /\ prevData = NoGraph
    /\ mergePc = "idle"
    /\ AppIdle
    /\ ExportIdle
    /\ DbIdle
    /\ LayoutIdle
    /\ ValidateIdle
    /\ SearchIdle
    /\ SimIdle

NotApp == UNCHANGED <<data, expansionData, prevData, mergePc,
                      layoutVars, validateVars, searchVars, simVars, exportVars, dbVars>>

\* the user asks for one more operation
Ask == opsStarted < MaxOps /\ opsStarted' = opsStarted + 1

\* both dialogs cover the page
ModalOpen == isUnsavedChangesModalOpen \/ isSaveModalOpen

\* generationFn or importFn as created by this request: the closure keeps the
\* arguments and the useDefaultModel of the render that created it
NewAction(kind, input) ==
    [kind |-> kind, req |-> opsStarted + 1, useDefault |-> useDefaultModel, input |-> input]

\* the deferred request's history once its closure is called
Ran(action, d) ==
    IF action.req = d.req THEN [d EXCEPT !.runs = IF @ < 2 THEN @ + 1 ELSE @] ELSE d

\* the deferred request's history once the user has answered
Decided(action, how) ==
    IF action.req = deferred.req /\ deferred.decided = "waiting"
    THEN [deferred EXCEPT !.decided = how]
    ELSE deferred

\* the first statements of generationFn and importFn (lines 213-217, 261-265),
\* up to the first await
Begin(action, savedNow, via) ==
    /\ isLoading' = TRUE
    /\ error' = Null
    /\ graphData' = NoGraph
    /\ selectedNode' = NoNode
    /\ isUnsavedChangesModalOpen' = FALSE
    /\ inFlight' = [Disturbed(inFlight) EXCEPT ![action.kind] =
                       [running |-> TRUE, alone |-> TRUE,
                        before |-> Snapshot(graphData, savedNow), via |-> via,
                        useDefault |-> action.useDefault, input |-> action.input]]

\* executeActionWithUnsavedCheck (lines 202-209)
ExecuteActionWithUnsavedCheck(action) ==
    IF graphData # NoGraph /\ ~isCurrentGraphSaved
    THEN /\ pendingAction' = action
         /\ isUnsavedChangesModalOpen' = TRUE
         /\ deferred' = [req |-> action.req, decided |-> "waiting", runs |-> 0]
         /\ UNCHANGED <<isLoading, error, graphData, selectedNode, inFlight>>
    ELSE /\ Begin(action, isCurrentGraphSaved, "direct")
         /\ UNCHANGED <<pendingAction, deferred>>

\* handleGenerateGraph (lines 211-252), called by the input panel's two
\* buttons (InputPanel.tsx:45-55, 77-78) when not loading
HandleGenerateGraph ==
    /\ ~ModalOpen
    /\ ~isLoading
    /\ ~inFlight.generate.running
    /\ \E input \in GenerateInputs :
          /\ input.topic => useDefaultModel
          /\ ExecuteActionWithUnsavedCheck(NewAction("generate", input))
    /\ outcome' = NoOutcome
    /\ UNCHANGED <<isCurrentGraphSaved, isSaveModalOpen, savedGraphs, expanding, saving,
                   useDefaultModel>>
    /\ Ask
    /\ NotApp

\* handleImportGraph (lines 254-303), once a file is picked
HandleImportGraph ==
    /\ ~ModalOpen
    /\ ~inFlight.import.running
    /\ ExecuteActionWithUnsavedCheck(NewAction("import", NoInput))
    /\ outcome' = NoOutcome
    /\ UNCHANGED <<isCurrentGraphSaved, isSaveModalOpen, savedGraphs, expanding, saving,
                   useDefaultModel>>
    /\ Ask
    /\ NotApp

\* the end of an async function of the given kind: try or catch, then finally
Finish(kind, threw, newData) ==
    /\ inFlight[kind].running
    /\ IF threw
       THEN /\ error' = "Error"
            /\ UNCHANGED <<graphData, isCurrentGraphSaved>>
       ELSE /\ graphData' = newData
            /\ isCurrentGraphSaved' = FALSE
            /\ UNCHANGED error
    /\ isLoading' = FALSE
    /\ pendingAction' = NoAction
    /\ inFlight' = [(IF threw THEN inFlight ELSE Disturbed(inFlight)) EXCEPT ![kind] = NoOp]
    /\ outcome' = [NoOutcome EXCEPT !.op = kind,
                      !.result = IF threw THEN "failed" ELSE "done",
                      !.alone = inFlight[kind].alone, !.before = inFlight[kind].before,
                      !.useDefault = inFlight[kind].useDefault,
                      !.input = inFlight[kind].input]
    /\ UNCHANGED <<selectedNode, isUnsavedChangesModalOpen, isSaveModalOpen, savedGraphs,
                   expanding, saving, useDefaultModel, deferred>>
    /\ UNCHANGED opsStarted
    /\ NotApp

\* generateGraphData resolved or rejected (lines 224-246)
GenerateDone ==
    /\ inFlight.generate.running
    /\ \E failed \in BOOLEAN, parsedData \in Responses :
          LET res == GenerateGraphData(inFlight.generate.input, inFlight.generate.useDefault,
                                       failed, parsedData)
          IN  Finish("generate", res.threw, res.data)

\* file.text() resolved and the file was parsed (lines 268-298)
ImportDone ==
    /\ inFlight.import.running
    /\ \E file \in ImportFiles :
          LET res == ImportResult(file) IN Finish("import", res.threw, res.data)

\* onUnsavedConfirm (lines 462-465)
OnUnsavedConfirm ==
    /\ isUnsavedChangesModalOpen
    /\ isUnsavedChangesModalOpen' = FALSE
    /\ isSaveModalOpen' = TRUE
    /\ outcome' = NoOutcome
    /\ UNCHANGED <<graphData, isCurrentGraphSaved, isLoading, error, selectedNode,
                   pendingAction, savedGraphs, inFlight, expanding, saving,
                   useDefaultModel, deferred>>
    /\ UNCHANGED opsStarted
    /\ NotApp

\* onUnsavedDeny (lines 467-472)
OnUnsavedDeny ==
    /\ isUnsavedChangesModalOpen
    /\ IF pendingAction # NoAction
       THEN /\ ~inFlight[pendingAction.kind].running
            /\ Begin(pendingAction, isCurrentGraphSaved, "deny")
            /\ deferred' = Ran(pendingAction, Decided(pendingAction, "continue"))
       ELSE /\ isUnsavedChangesModalOpen' = FALSE
            /\ UNCHANGED <<isLoading, error, graphData, selectedNode, inFlight, deferred>>
    /\ outcome' = NoOutcome
    /\ UNCHANGED <<isCurrentGraphSaved, pendingAction, isSaveModalOpen, savedGraphs,
                   expanding, saving, useDefaultModel>>
    /\ UNCHANGED opsStarted
    /\ NotApp

\* onUnsavedCancel (lines 474-477)
OnUnsavedCancel ==
    /\ isUnsavedChangesModalOpen
    /\ isUnsavedChangesModalOpen' = FALSE
    /\ pendingAction' = NoAction
    /\ deferred' = Decided(pendingAction, "cancelled")
    /\ outcome' = NoOutcome
    /\ UNCHANGED <<graphData, isCurrentGraphSaved, isLoading, error, selectedNode,
                   isSaveModalOpen, savedGraphs, inFlight, expanding, saving, useDefaultModel>>
    /\ UNCHANGED opsStarted
    /\ NotApp

\* the header's Save (lines 482, 484), enabled for an unsaved graph
OpenSaveModal ==
    /\ ~ModalOpen
    /\ graphData # NoGraph
    /\ ~isCurrentGraphSaved
    /\ isSaveModalOpen' = TRUE
    /\ outcome' = NoOutcome
    /\ UNCHANGED <<graphData, isCurrentGraphSaved, isLoading, error, selectedNode,
                   pendingAction, isUnsavedChangesModalOpen, savedGraphs, inFlight,
                   expanding, saving, useDefaultModel, deferred>>
    /\ UNCHANGED opsStarted
    /\ NotApp

\* the save dialog's onClose (line 576)
CloseSaveModal ==
    /\ isSaveModalOpen
    /\ isSaveModalOpen' = FALSE
    /\ isUnsavedChangesModalOpen' = FALSE
    /\ pendingAction' = NoAction
    /\ deferred' = Decided(pendingAction, "closed")
    /\ outcome' = NoOutcome
    /\ UNCHANGED <<graphData, isCurrentGraphSaved, isLoading, error, selectedNode,
                   savedGraphs, inFlight, expanding, saving, useDefaultModel>>
    /\ UNCHANGED opsStarted
    /\ NotApp

\* handleSaveCurrentGraph (lines 371-381) up to dbService.saveGraph(...)
HandleSaveCurrentGraph ==
    /\ isSaveModalOpen
    /\ graphData # NoGraph
    /\ saving = NoSave
    /\ graphData \notin savedGraphs
    /\ Cardinality(savedGraphs) < MaxSaved
    /\ saving' = [graphData |-> graphData, pendingAction |-> pendingAction]
    /\ outcome' = NoOutcome
    /\ UNCHANGED <<graphData, isCurrentGraphSaved, isLoading, error, selectedNode,
                   pendingAction, isUnsavedChangesModalOpen, isSaveModalOpen, savedGraphs,
                   inFlight, expanding, useDefaultModel, deferred>>
    /\ Ask
    /\ NotApp

\* the then of dbService.saveGraph (lines 373-380)
SaveDone ==
    /\ saving # NoSave
    /\ savedGraphs' = savedGraphs \cup {saving.graphData}
    /\ isSaveModalOpen' = FALSE
    /\ isCurrentGraphSaved' = TRUE
    /\ IF saving.pendingAction # NoAction
       THEN /\ ~inFlight[saving.pendingAction.kind].running
            /\ Begin(saving.pendingAction, TRUE, "save")
            /\ deferred' = Ran(saving.pendingAction, Decided(saving.pendingAction, "saved"))
       ELSE /\ inFlight' = Disturbed(inFlight)
            /\ UNCHANGED <<isLoading, error, graphData, selectedNode,
                           isUnsavedChangesModalOpen, deferred>>
    /\ saving' = NoSave
    /\ outcome' = NoOutcome
    /\ UNCHANGED <<pendingAction, expanding, useDefaultModel>>
    /\ UNCHANGED opsStarted
    /\ NotApp

\* handleLoadGraph (lines 383-395) for a graph of the store
HandleLoadGraph ==
    /\ ~ModalOpen
    /\ \E g \in savedGraphs : graphData' = g
    /\ isCurrentGraphSaved' = TRUE
    /\ error' = Null
    /\ selectedNode' = NoNode
    /\ inFlight' = Disturbed(inFlight)
    /\ outcome' = [NoOutcome EXCEPT !.op = "load", !.result = "done",
                                    !.before = Snapshot(graphData, isCurrentGraphSaved)]
    /\ UNCHANGED <<isLoading, pendingAction, isUnsavedChangesModalOpen, isSaveModalOpen,
                   savedGraphs, expanding, saving, useDefaultModel, deferred>>
    /\ Ask
    /\ NotApp

\* handleDeleteGraph (lines 397-402), once window.confirm is accepted
HandleDeleteGraph ==
    /\ ~ModalOpen
    /\ \E g \in savedGraphs : savedGraphs' = savedGraphs \ {g}
    /\ outcome' = NoOutcome
    /\ UNCHANGED <<graphData, isCurrentGraphSaved, isLoading, error, selectedNode,
                   pendingAction, isUnsavedChangesModalOpen, isSaveModalOpen, inFlight,
                   expanding, saving, useDefaultModel, deferred>>
    /\ UNCHANGED opsStarted
    /\ NotApp

\* handleSaveSettings (lines 187-200), from the settings dialog
HandleSaveSettings ==
    /\ ~ModalOpen
    /\ \E newUseDefault \in BOOLEAN : useDefaultModel' = newUseDefault
    /\ outcome' = NoOutcome
    /\ UNCHANGED <<graphData, isCurrentGraphSaved, isLoading, error, selectedNode,
                   pendingAction, isUnsavedChangesModalOpen, isSaveModalOpen, savedGraphs,
                   inFlight, expanding, saving, deferred>>
    /\ UNCHANGED opsStarted
    /\ NotApp

\* handleNodeClick (lines 309-312) on a node of the displayed graph
HandleNodeClick ==
    /\ ~ModalOpen
    /\ graphData # NoGraph
    /\ \E i \in DOMAIN graphData.nodes : selectedNode' = graphData.nodes[i]
    /\ outcome' = NoOutcome
    /\ UNCHANGED <<graphData, isCurrentGraphSaved, isLoading, error, pendingAction,
                   isUnsavedChangesModalOpen, isSaveModalOpen, savedGraphs, inFlight,
                   expanding, saving, useDefaultModel, deferred>>
    /\ UNCHANGED opsStarted
    /\ NotApp

\* handleExpandNode (lines 318-331) up to the await; the panel's button is
\* disabled while loading and without the default model (NodeSidePanel.tsx:130)
HandleExpandNode ==
    /\ ~ModalOpen
    /\ selectedNode # NoNode
    /\ ~isLoading
    /\ useDefaultModel
    /\ graphData # NoGraph
    /\ expanding = NoNode
    /\ isLoading' = TRUE
    /\ error' = Null
    /\ selectedNode' = NoNode
    /\ expanding' = selectedNode
    /\ outcome' = NoOutcome
    /\ UNCHANGED <<graphData, isCurrentGraphSaved, pendingAction, isUnsavedChangesModalOpen,
                   isSaveModalOpen, savedGraphs, inFlight, saving, useDefaultModel, deferred>>
    /\ Ask
    /\ NotApp

\* the catch block of handleExpandNode without its setSelectedNode
ExpandFailedNoReopen ==
    /\ error' = "Error"
    /\ UNCHANGED <<graphData, isCurrentGraphSaved, inFlight, selectedNode>>

\* the catch block of handleExpandNode (lines 359-363)
ExpandFailed ==
    /\ error' = "Error"
    /\ selectedNode' = expanding
    /\ UNCHANGED <<graphData, isCurrentGraphSaved, inFlight>>

\* expandGraphFromNode resolved or rejected (lines 333-366); the closure was
\* created with the default model in use, the button being disabled otherwise
ExpandDone ==
    /\ expanding # NoNode
    /\ \E parsedData \in ExpansionResponses(expanding) :
          LET res == ExpandGraphFromNode(expanding, TRUE, parsedData) IN
          IF res.threw
          THEN /\ ExpandFailed
               /\ outcome' = [NoOutcome EXCEPT !.op = "expand", !.result = "failed",
                                 !.before = Snapshot(graphData, isCurrentGraphSaved),
                                 !.node = expanding]
          ELSE /\ graphData' = MergeExpansion(graphData, res.data)
               /\ isCurrentGraphSaved' = FALSE
               /\ outcome' = [NoOutcome EXCEPT !.op = "expand", !.result = "done",
                                 !.before = Snapshot(graphData, isCurrentGraphSaved),
                                 !.node = expanding]
               /\ inFlight' = Disturbed(inFlight)
               /\ UNCHANGED <<error, selectedNode>>
    /\ isLoading' = FALSE
    /\ expanding' = NoNode
    /\ UNCHANGED <<pendingAction, isUnsavedChangesModalOpen, isSaveModalOpen, savedGraphs,
                   saving, useDefaultModel, deferred>>
    /\ UNCHANGED opsStarted
    /\ NotApp

NextApp ==
    \/ HandleGenerateGraph
    \/ HandleImportGraph
    \/ GenerateDone
    \/ ImportDone
    \/ OnUnsavedConfirm
    \/ OnUnsavedDeny
    \/ OnUnsavedCancel
    \/ OpenSaveModal
    \/ CloseSaveModal
    \/ HandleSaveCurrentGraph
    \/ SaveDone
    \/ HandleLoadGraph
    \/ HandleDeleteGraph
    \/ HandleSaveSettings
    \/ HandleNodeClick
    \/ HandleExpandNode
    \/ ExpandDone

SpecApp == InitApp /\ [][NextApp]_vars

----------------------------------------------------------------------------
(* The PNG export specification (GraphVisualizer.tsx:46-86)                *)

\* what the svg element holds: node positions, the zoom transform on the
\* inner group, the drawn data, and whether a label has an unpaired surrogate
Scenes ==
    [positions : {0, 1}, transform : {0, 1}, graph : {0, 1}, loneSurrogate : BOOLEAN]

\* containerRef.current.getBoundingClientRect()
Viewports == [width : {1, 2}, height : {1, 2}]

\* XMLSerializer.serializeToString(svg): the markup of the scene as it is now
SerializeToString(s) ==
    [xmlns |-> TRUE, positions |-> s.positions, transform |-> s.transform, graph |-> s.graph,
     loneSurrogate |-> s.loneSurrogate]

\* lines 56-58: the namespace is added when the markup lacks it
WithNamespace(svgString) ==
    IF svgString.xmlns THEN svgString ELSE [svgString EXCEPT !.xmlns = TRUE]

\* encodeURIComponent throws URIError on an unpaired surrogate
EncodeThrows(svgString) == svgString.loneSurrogate

\* the picture the browser decodes from the data URL
Decode(svgDataUrl) ==
    [positions |-> svgDataUrl.payload.positions, transform |-> svgDataUrl.payload.transform,
     graph |-> svgDataUrl.payload.graph]

\* the picture of a scene
Picture(s) == [positions |-> s.positions, transform |-> s.transform, graph |-> s.graph]

\* history: scene and container all differ from what they were at the call
AllChanged(atCall) ==
    /\ scene.positions # atCall.scene.positions
    /\ scene.transform # atCall.scene.transform
    /\ scene.graph # atCall.scene.graph
    /\ viewport.width # atCall.viewport.width
    /\ viewport.height # atCall.viewport.height

\* the canvas sized from the container as it is when the image has loaded
CanvasLive(closure) == [width |-> viewport.width, height |-> viewport.height]

\* lines 62-64: the canvas has the width and height read when exportAsPNG was called
Canvas(closure) == [width |-> closure.width, height |-> closure.height]

InitExport ==
    /\ data = EmptyGraph
    /\ scene \in {s \in Scenes : s.positions = 0 /\ s.transform = 0 /\ s.graph = 0}
    /\ viewport \in Viewports
    /\ imgPending = <<>>
    /\ downloads = <<>>
    /\ consoleErrors = <<>>
    /\ callerError = FALSE
    /\ exportEvent = NoExportEvent
    /\ exportsStarted = 0
    /\ LayoutIdle
    /\ ValidateIdle
    /\ SearchIdle
    /\ SimIdle
    /\ MergeIdle
    /\ AppIdle
    /\ DbIdle

NotExport == UNCHANGED <<data, layoutVars, validateVars, searchVars, simVars, mergeVars,
                         appVars, dbVars>>

\* simulation.on('tick') and dragged move the nodes (lines 288-302, 307-310)
SceneTick ==
    /\ scene' = [scene EXCEPT !.positions = 1 - @]
    /\ exportEvent' = NoExportEvent
    /\ UNCHANGED <<viewport, imgPending, downloads, consoleErrors, callerError, exportsStarted>>
    /\ NotExport

\* the zoom handler sets the group's transform (lines 324-326)
SceneZoom ==
    /\ scene' = [scene EXCEPT !.transform = 1 - @]
    /\ exportEvent' = NoExportEvent
    /\ UNCHANGED <<viewport, imgPending, downloads, consoleErrors, callerError, exportsStarted>>
    /\ NotExport

\* the main effect redraws other data (lines 120-335)
SceneData ==
    /\ \E g \in {0, 1}, bad \in BOOLEAN :
          /\ g # scene.graph
          /\ scene' = [scene EXCEPT !.graph = g, !.loneSurrogate = bad, !.positions = 0]
    /\ exportEvent' = NoExportEvent
    /\ UNCHANGED <<viewport, imgPending, downloads, consoleErrors, callerError, exportsStarted>>
    /\ NotExport

\* the window is resized: the container has another size
Resize ==
    /\ \E v \in Viewports : v # viewport /\ viewport' = v
    /\ exportEvent' = NoExportEvent
    /\ UNCHANGED <<scene, imgPending, downloads, consoleErrors, callerError, exportsStarted>>
    /\ NotExport

\* exportAsPNG (lines 47-85) up to img.src = svgDataUrl, for a mounted component
ExportAsPNG ==
    /\ exportsStarted < MaxExports
    /\ exportsStarted' = exportsStarted + 1
    /\ LET svgString == WithNamespace(SerializeToString(scene)) IN
       IF EncodeThrows(svgString)
       THEN /\ callerError' = TRUE
            /\ exportEvent' = [NoExportEvent EXCEPT !.kind = "threw"]
            /\ UNCHANGED imgPending
       ELSE /\ imgPending' = Append(imgPending,
                                [filename |-> "graph", width |-> viewport.width,
                                 height |-> viewport.height,
                                 svgDataUrl |-> [mime |-> "image/svg+xml", payload |-> svgString],
                                 atCall |-> [scene |-> scene, viewport |-> viewport]])
            /\ exportEvent' = [NoExportEvent EXCEPT !.kind = "called"]
            /\ UNCHANGED callerError
    /\ UNCHANGED <<scene, viewport, downloads, consoleErrors>>
    /\ NotExport

\* img.onload (lines 61-78): the picture is drawn on the canvas and downloaded
ImgOnLoad ==
    /\ \E i \in DOMAIN imgPending :
          LET closure == imgPending[i] IN
          /\ imgPending' = [j \in 1..(Len(imgPending) - 1) |->
                               IF j < i THEN imgPending[j] ELSE imgPending[j + 1]]
          /\ \E hasContext \in BOOLEAN :
                IF hasContext
                THEN downloads' = Append(downloads,
                                    [download |-> <<closure.filename, ".png">>,
                                     content |-> Decode(closure.svgDataUrl),
                                     size |-> Canvas(closure),
                                     atCall |-> closure.atCall,
                                     allChanged |-> AllChanged(closure.atCall)])
                ELSE UNCHANGED downloads
    /\ exportEvent' = [NoExportEvent EXCEPT !.kind = "loaded"]
    /\ UNCHANGED <<scene, viewport, consoleErrors, callerError, exportsStarted>>
    /\ NotExport

\* an onerror handler that logs nothing
ImgOnErrorSilent ==
    /\ \E i \in DOMAIN imgPending :
          imgPending' = [j \in 1..(Len(imgPending) - 1) |->
                            IF j < i THEN imgPending[j] ELSE imgPending[j + 1]]
    /\ exportEvent' = [kind |-> "error", scene |-> scene, viewport |-> viewport,
                       downloads |-> downloads, consoleErrors |-> consoleErrors,
                       callerError |-> callerError]
    /\ UNCHANGED <<scene, viewport, downloads, consoleErrors, callerError, exportsStarted>>
    /\ NotExport

\* img.onerror (lines 79-81): the decoding failed
ImgOnError ==
    /\ \E i \in DOMAIN imgPending :
          imgPending' = [j \in 1..(Len(imgPending) - 1) |->
                            IF j < i THEN imgPending[j] ELSE imgPending[j + 1]]
    /\ consoleErrors' = Append(consoleErrors, "Failed to load SVG image for PNG conversion")
    /\ exportEvent' = [kind |-> "error", scene |-> scene, viewport |-> viewport,
                       downloads |-> downloads, consoleErrors |-> consoleErrors,
                       callerError |-> callerError]
    /\ UNCHANGED <<scene, viewport, downloads, callerError, exportsStarted>>
    /\ NotExport

NextExport ==
    \/ SceneTick
    \/ SceneZoom
    \/ SceneData
    \/ Resize
    \/ ExportAsPNG
    \/ ImgOnLoad
    \/ ImgOnError

SpecExport == InitExport /\ [][NextExport]_vars

----------------------------------------------------------------------------
(* The persistent store specification (dbService.ts)                       *)

GraphNames == {"first", "second"}

\* createdAt as the caller gives it
Dates == {1, 2}

\* the records of the store in the order of a cursor with direction 'next':
\* ascending keys
RECURSIVE CursorNext(_)
CursorNext(records) ==
    IF records = {} THEN <<>>
    ELSE LET first == CHOOSE r \in records : \A o \in records : o.id >= r.id
         IN  <<first>> \o CursorNext(records \ {first})

\* the records of the store in the order of openCursor(null, 'prev') (line 50):
\* descending keys
RECURSIVE CursorPrev(_)
CursorPrev(records) ==
    IF records = {} THEN <<>>
    ELSE LET first == CHOOSE r \in records : \A o \in records : o.id <= r.id
         IN  <<first>> \o CursorPrev(records \ {first})

\* const { id, name, createdAt } = cursor.value (lines 56-57)
Meta(record) == [id |-> record.id, name |-> record.name, createdAt |-> record.createdAt]

InitDb ==
    /\ data = EmptyGraph
    /\ DbIdle
    /\ LayoutIdle
    /\ ValidateIdle
    /\ SearchIdle
    /\ SimIdle
    /\ MergeIdle
    /\ AppIdle
    /\ ExportIdle

NotDb == UNCHANGED <<data, layoutVars, validateVars, searchVars, simVars, mergeVars,
                     appVars, exportVars>>

\* saveGraph (lines 23-32): store.add on a store with autoIncrement keys
SaveGraph ==
    /\ keyGenerator <= MaxKeys
    /\ \E name \in GraphNames, createdAt \in Dates, g \in {NoGraph, EmptyGraph} :
          /\ objectStore' = objectStore \cup
                {[id |-> keyGenerator, name |-> name, createdAt |-> createdAt, graphData |-> g]}
          /\ dbSaved' = Append(dbSaved,
                               [id |-> keyGenerator, name |-> name, createdAt |-> createdAt])
    /\ keyGenerator' = keyGenerator + 1
    /\ dbResult' = [op |-> "saveGraph", value |-> keyGenerator]
    /\ UNCHANGED dbDeleted
    /\ NotDb

\* deleteGraph (lines 66-75): store.delete(id), a key that is absent included
DeleteGraph ==
    /\ \E id \in 1..MaxKeys :
          /\ objectStore' = {r \in objectStore : r.id # id}
          /\ dbDeleted' = [dbDeleted EXCEPT ![id] = Len(dbSaved)]
    /\ dbResult' = [op |-> "deleteGraph", value |-> Null]
    /\ UNCHANGED <<keyGenerator, dbSaved>>
    /\ NotDb

\* getSavedGraphsMeta (lines 45-64)
GetSavedGraphsMeta ==
    /\ dbResult' = [op |-> "getSavedGraphsMeta",
                    value |-> LET found == CursorPrev(objectStore)
                              IN  [i \in DOMAIN found |-> Meta(found[i])]]
    /\ UNCHANGED <<objectStore, keyGenerator, dbSaved, dbDeleted>>
    /\ NotDb

NextDb ==
    \/ SaveGraph
    \/ DeleteGraph
    \/ GetSavedGraphsMeta

SpecDb == InitDb /\ [][NextDb]_vars

----------------------------------------------------------------------------
(* Properties of the sanitizer and the level assigner                      *)

Leveled == layoutPc = "done" /\ ~leveling.threw /\ Len(sanitizedNodes) > 0

SanIds == NodeIdSet(sanitizedNodes)

SanLinkIdx == DOMAIN sanitizedLinks

Abs(x) == IF x < 0 THEN -x ELSE x

\* number of link ends incident to id (a self-loop has two)
DegreeOf(id) ==
    Cardinality({i \in SanLinkIdx : sanitizedLinks[i].source = id})
    + Cardinality({i \in SanLinkIdx : sanitizedLinks[i].target = id})

\* the first node, in input order, among those of maximum degree
FirstMaxDegreeId ==
    LET idx == DOMAIN sanitizedNodes
        IsMax(i) == \A j \in idx : DegreeOf(sanitizedNodes[j].id) <= DegreeOf(sanitizedNodes[i].id)
        first == CHOOSE i \in idx : IsMax(i) /\ \A j \in idx : IsMax(j) => i <= j
    IN  sanitizedNodes[first].id

UndirectedNeighbors(id) ==
    {sanitizedLinks[i].target : i \in {j \in SanLinkIdx : sanitizedLinks[j].source = id}}
    \cup {sanitizedLinks[i].source : i \in {j \in SanLinkIdx : sanitizedLinks[j].target = id}}

\* length of a shortest undirected path, -1 when there is none
RECURSIVE DistFrom(_, _, _, _)
DistFrom(frontier, seen, d, target) ==
    IF target \in frontier THEN d
    ELSE IF frontier = {} THEN -1
    ELSE LET nxt == (UNION {UndirectedNeighbors(x) : x \in frontier}) \ seen
         IN  DistFrom(nxt, seen \cup nxt, d + 1, target)

Dist(a, b) == DistFrom({a}, {a}, 0, b)

Component(id) == {j \in SanIds : Dist(id, j) >= 0}

\* C1: every link the sanitizer keeps has its source and its target among
\* the ids of the nodes the sanitizer keeps
C1_SanitizedLinksClosed ==
    layoutPc = "done" =>
        \A i \in SanLinkIdx :
            /\ sanitizedLinks[i].source \in SanIds
            /\ sanitizedLinks[i].target \in SanIds

\* C2: the sanitizer applied to its own output returns that output
C2_SanitizerIdempotent ==
    (layoutPc = "done" /\ passNo = 2) =>
        [nodes |-> sanitizedNodes, links |-> sanitizedLinks] = prevOut

\* C3: in a leveled graph the levels of the two ends of every link differ by
\* at most 1
C3_LinkLevelsAdjacent ==
    Leveled =>
        \A i \in SanLinkIdx :
            LET l == sanitizedLinks[i] IN
            /\ l.source \in DOMAIN leveling.levels
            /\ l.target \in DOMAIN leveling.levels
            /\ Abs(leveling.levels[l.source] - leveling.levels[l.target]) <= 1

\* a leveled graph with a link across two levels and a link inside one level
C3_Witness ==
    /\ Leveled
    /\ \E i \in SanLinkIdx :
          Abs(leveling.levels[sanitizedLinks[i].source] - leveling.levels[sanitizedLinks[i].target]) = 1
    /\ \E i \in SanLinkIdx :
          /\ sanitizedLinks[i].source # sanitizedLinks[i].target
          /\ leveling.levels[sanitizedLinks[i].source] = leveling.levels[sanitizedLinks[i].target]

\* C4: the first BFS run starts from the first node, in input order, among
\* the nodes of maximum degree; on the 4-cycle A-B, B-C, C-D, A-D the root is A
\* and the levels are A:0, B:1, D:1, C:2
C4_RootIsFirstMaxDegree ==
    Leveled =>
        /\ leveling.rootNodeId = FirstMaxDegreeId
        /\ Len(leveling.runs) >= 1
        /\ leveling.runs[1] = FirstMaxDegreeId
        /\ leveling.levels[FirstMaxDegreeId] = 0
        /\ (data = FourCycle =>
              /\ leveling.rootNodeId = "A"
              /\ leveling.levels = [id \in {"A", "B", "C", "D"} |->
                    IF id = "A" THEN 0 ELSE IF id = "C" THEN 2 ELSE 1])

\* the 4-cycle, leveled
C4_Witness ==
    /\ Leveled
    /\ data = FourCycle
    /\ leveling.rootNodeId = "A"
    /\ leveling.levels["C"] = 2

\* C5: after leveling every node has a level, every connected component
\* has exactly one node of level 0, and the level of a node is its shortest
\* undirected path length to the level-0 node of its own component
C5_LevelsAreComponentDistances ==
    Leveled =>
        /\ \A i \in DOMAIN sanitizedNodes : NodeLevel(leveling, sanitizedNodes[i]) # NoLevel
        /\ DOMAIN leveling.levels = SanIds
        /\ \A id \in SanIds :
              LET roots == {r \in Component(id) : leveling.levels[r] = 0} IN
              /\ Cardinality(roots) = 1
              /\ \A r \in roots : leveling.levels[id] = Dist(r, id)

\* two components, each with its own level 0 and a node at distance 1
C5_Witness ==
    /\ Leveled
    /\ \E a \in SanIds, b \in SanIds :
          /\ b \notin Component(a)
          /\ Cardinality(Component(a)) >= 2
          /\ Cardinality(Component(b)) >= 2
          /\ leveling.levels[a] = 0
          /\ leveling.levels[b] = 0

----------------------------------------------------------------------------
(* Properties of the suggestion list                                       *)

SameIgnoringCase(x, y) ==
    /\ Len(x) = Len(y)
    /\ \A i \in DOMAIN x : ToLowerChar(x[i]) = ToLowerChar(y[i])

\* sub occurs in str at some offset, letter case ignored
ContainsIgnoringCase(str, sub) ==
    \E k \in 0..(Len(str) - Len(sub)) :
        \A i \in 1..Len(sub) : ToLowerChar(str[k + i]) = ToLowerChar(sub[i])

\* positions of the nodes whose label contains q and is not equal to q
MatchPositions(q) ==
    {i \in DOMAIN data.nodes :
        /\ ContainsIgnoringCase(data.nodes[i].label, q)
        /\ ~SameIgnoringCase(data.nodes[i].label, q)}

\* the k-th smallest element of a set of positions
KthOf(S, k) == CHOOSE i \in S : Cardinality({j \in S : j < i}) = k - 1

\* the first at most 10 nodes at the positions in S, in node order
FirstTenAt(S) == [k \in 1..Min(MaxSuggestions, Cardinality(S)) |-> data.nodes[KthOf(S, k)]]

OnlyWhiteSpace(q) == \A i \in DOMAIN q : IsWhiteSpace(q[i])

\* the query without its leading and trailing white space
Stripped(q) ==
    IF OnlyWhiteSpace(q) THEN <<>>
    ELSE LET first == CHOOSE i \in DOMAIN q :
                         ~IsWhiteSpace(q[i]) /\ \A j \in 1..(i - 1) : IsWhiteSpace(q[j])
             last  == CHOOSE i \in DOMAIN q :
                         ~IsWhiteSpace(q[i]) /\ \A j \in (i + 1)..Len(q) : IsWhiteSpace(q[j])
         IN  SubSeq(q, first, last)

SuggestDone == ~sugPending /\ lastEvent = NoEvent

\* C6 as stated: the suggestion list is the first at most 10 nodes, in node
\* order, whose label contains the query, letter case ignored, and is not equal
\* to it; an empty or white-space-only query gives no suggestions
C6_SuggestionsMatchQuery ==
    SuggestDone =>
        IF OnlyWhiteSpace(searchQuery) THEN suggestions = <<>>
        ELSE suggestions = FirstTenAt(MatchPositions(searchQuery))

\* C6 amended: the same with the query stripped of its leading and trailing
\* white space before it is compared with the labels
C6_SuggestionsMatchTrimmedQuery ==
    SuggestDone =>
        IF OnlyWhiteSpace(searchQuery) THEN suggestions = <<>>
        ELSE suggestions = FirstTenAt(MatchPositions(Stripped(searchQuery)))

\* more than 10 labels match, one label equal to the query is left out, and the
\* query carries white space around it
C6_Witness ==
    /\ SuggestDone
    /\ Len(suggestions) = MaxSuggestions
    /\ Cardinality(MatchPositions(Stripped(searchQuery))) > MaxSuggestions
    /\ \E i \in DOMAIN data.nodes : SameIgnoringCase(data.nodes[i].label, Stripped(searchQuery))
    /\ Stripped(searchQuery) # searchQuery
    /\ suggestions[1] # data.nodes[1]

----------------------------------------------------------------------------
(* Properties of the search box                                            *)

\* C7: after a suggestion for node n is selected and the effects that the
\* selection triggers have run, the query is n's label, the suggestion list is
\* empty and n is the highlighted node
C7_SelectionClearsSuggestions ==
    (lastEvent.type = "select" /\ ~sugPending) =>
        /\ searchQuery = lastEvent.node.label
        /\ suggestions = <<>>
        /\ highlightedNodeId = lastEvent.node.id

\* the place of the first node with this id in the sanitized node list
FirstIndexOf(id) ==
    CHOOSE i \in DOMAIN sanitizedNodes :
        /\ sanitizedNodes[i].id = id
        /\ \A j \in DOMAIN sanitizedNodes : sanitizedNodes[j].id = id => i <= j

C18_EmptyQueryNothingShown ==
    (searchQuery = <<>> /\ ~sugPending) =>
        /\ suggestions = <<>>
        /\ highlightedNodeId = Null

----------------------------------------------------------------------------
(* Properties of the simulation and of dragging                            *)

DragInProgress(k, n) == \E p \in Pointers : gestures[p] = [sim |-> k, node |-> n]

\* C8: at every instant a node has a pinned position exactly when a drag of
\* that node is in progress
C8_PinnedIffDragged ==
    \A k \in DOMAIN sims : \A n \in DOMAIN sims[k].nodes :
        (sims[k].nodes[n].pin # NoPin) <=> DragInProgress(k, n)

\* C9: at most one simulation is ticking at any time: only the simulation of
\* the mounted view's current ref can be running
C9_OneSimulationTicking ==
    /\ Cardinality({k \in DOMAIN sims : sims[k].running}) <= 1
    /\ \A k \in DOMAIN sims : sims[k].running => (mounted /\ k = simulationRef)

\* a second simulation runs after the first was replaced while one of its
\* nodes was being dragged
C9_Witness ==
    /\ Len(sims) >= 2
    /\ sims[Len(sims)].running
    /\ \E p \in Pointers : gestures[p].sim = 1
    /\ ~sims[1].running

\* C19: while a drag of a node of the rendered graph is in progress, the
\* simulation of that node is ticking with a positive alphaTarget
C19_DraggedSimulationTicks ==
    \A p \in Pointers :
        (mounted /\ gestures[p] # NoGesture /\ gestures[p].sim = simulationRef) =>
            /\ sims[simulationRef].running
            /\ sims[simulationRef].alphaTarget > 0

NoDrag == \A p \in Pointers : gestures[p] = NoGesture

NoDragOf(k) == \A p \in Pointers : gestures[p].sim # k

AllConverged == \A k \in DOMAIN sims : ~sims[k].running /\ sims[k].alpha = 0

\* C20: a simulation none of whose nodes is being dragged has alphaTarget 0,
\* and when from some point on no drag is in progress and nothing but ticks
\* happens, the simulation converges (alpha below the threshold) and stops
C20_CoolsDownAndStops ==
    /\ [](\A k \in DOMAIN sims : NoDragOf(k) => sims[k].alphaTarget = 0)
    /\ (<>[]NoDrag /\ <>[][AnyTick]_vars) => <>[](\A k \in DOMAIN sims : ~sims[k].running)

\* no drag is in progress and the rendered simulation has cooled down and
\* stopped, with a node away from where it started
C20_Witness ==
    /\ mounted
    /\ NoDrag
    /\ simulationRef \in DOMAIN sims
    /\ ~sims[simulationRef].running
    /\ sims[simulationRef].alpha = 0
    /\ sims[simulationRef].alphaTarget = 0
    /\ \E n \in DOMAIN sims[simulationRef].nodes :
          sims[simulationRef].nodes[n].pos # InitialPoint

----------------------------------------------------------------------------
(* Properties of the expansion merge                                       *)

Merged == mergePc = "merged" /\ prevData # NoGraph

IdsOf(nodes) == [i \in DOMAIN nodes |-> nodes[i].id]

\* C10: the merge keeps the existing nodes unchanged and in order, appends
\* exactly the new nodes whose id is not already present, and yields a node
\* list in which no id occurs twice; [A,B] merged with [B,E] gives [A,B,E]
C10_MergeKeepsIdsUnique ==
    Merged =>
        LET old   == prevData.nodes
            new   == graphData.nodes
            added == SubSeq(new, Len(old) + 1, Len(new))
        IN  /\ Len(new) >= Len(old)
            /\ SubSeq(new, 1, Len(old)) = old
            /\ \A i \in DOMAIN added :
                  added[i].id \notin NodeIdSet(old) /\ added[i] \in Range(expansionData.nodes)
            /\ \A i \in DOMAIN expansionData.nodes :
                  expansionData.nodes[i].id \notin NodeIdSet(old)
                      => expansionData.nodes[i] \in Range(added)
            /\ NoRepeat(IdsOf(new))
            /\ (IdsOf(old) = <<IdA, IdB>> /\ IdsOf(expansionData.nodes) = <<IdB, IdE>>
                  => IdsOf(new) = <<IdA, IdB, IdE>>)

\* C11: merged links are collapsed exactly when they agree on source, target
\* and label: the merged link list repeats no link, and every link of the
\* existing graph and of the expansion is in it
C11_LinksCollapseIffEqual ==
    Merged =>
        LET combinedLinks == prevData.links \o expansionData.links
        IN  /\ NoRepeat(graphData.links)
            /\ Range(graphData.links) = Range(combinedLinks)

----------------------------------------------------------------------------
(* More properties of the sanitizer                                        *)

\* C13: for every graph value the sanitize-then-level step completes without
\* throwing
C13_SanitizeAndLevelNeverThrows ==
    layoutPc = "done" => ~leveling.threw

\* C14: no two nodes of the sanitizer's output share an id
C14_SanitizedIdsUnique ==
    layoutPc = "done" => NoRepeat(IdsOf(sanitizedNodes))

\* C15: every entry the sanitizer drops produces a warning naming it, and
\* nothing else produces a warning
C15_EveryDropWarned ==
    layoutPc = "done" =>
        /\ Len(warnings) = (Len(data.nodes) - Len(sanitizedNodes))
                           + (Len(data.links) - Len(sanitizedLinks))
        /\ \A i \in DOMAIN warnings :
              \/ /\ warnings[i].kind = "link"
                 /\ \E l \in Range(data.links) \ Range(sanitizedLinks) :
                       l.source = warnings[i].source /\ l.target = warnings[i].target
              \/ /\ warnings[i].kind = "node"
                 /\ \E n \in Range(data.nodes) \ Range(sanitizedNodes) :
                       n.id = warnings[i].id

\* C16: the import validator and the sanitizer keep the same nodes and the
\* same links of every raw graph
C16_ValidatorEqualsSanitizer ==
    (layoutPc = "done" /\ validatePc = "done") =>
        /\ validated.nodes = sanitizedNodes
        /\ validated.links = sanitizedLinks

----------------------------------------------------------------------------
(* Properties of the App's operations                                      *)

\* C12: when a generate or import operation fails, and no other operation
\* changed the display meanwhile, the displayed graph and its saved flag are as
\* they were when the operation started, and an error message is set
C12_FailureLeavesGraphUntouched ==
    (outcome.op \in {"generate", "import"} /\ outcome.result = "failed" /\ outcome.alone) =>
        /\ graphData = outcome.before.graphData
        /\ isCurrentGraphSaved = outcome.before.saved
        /\ error # Null

LinksClosed(g) ==
    \A i \in DOMAIN g.links :
        g.links[i].source \in NodeIdSet(g.nodes) /\ g.links[i].target \in NodeIdSet(g.nodes)

\* C17: every link of graphData has its source and its target among the ids
\* of graphData's nodes
C17_GraphDataLinksClosed ==
    graphData # NoGraph => LinksClosed(graphData)

\* C24: a generation with a topic or files, and an expansion, requested without
\* the default model end in an error and leave the displayed graph as it was
\* when they started
C24_CustomModelNeverChangesGraph ==
    LET needsDefault == \/ outcome.op = "generate" /\ (outcome.input.topic \/ outcome.input.files)
                        \/ outcome.op = "expand"
    IN  (needsDefault /\ ~outcome.useDefault /\ outcome.alone) =>
            /\ outcome.result = "failed"
            /\ graphData = outcome.before.graphData

\* C26: a deferred generate or import has not run while the user has not
\* answered, runs at most once, and has not run if the user cancelled the
\* confirmation dialog or closed the save dialog
C26_DeferredActionRunsOnceOnConsent ==
    /\ deferred.runs <= 1
    /\ deferred.decided \in {"waiting", "cancelled", "closed"} => deferred.runs = 0
    /\ deferred.runs > 0 => deferred.decided \in {"continue", "saved"}

\* C27: when an expansion has just failed, graphData is what it was, the error
\* is set, the node panel shows the node that was being expanded and
\* isLoading is false
C27_FailedExpansionRestoresPanel ==
    (outcome.op = "expand" /\ outcome.result = "failed") =>
        /\ graphData = outcome.before.graphData
        /\ error # Null
        /\ selectedNode = outcome.node
        /\ ~isLoading

C27_Witness ==
    /\ outcome.op = "expand"
    /\ outcome.result = "failed"
    /\ graphData # NoGraph
    /\ selectedNode \in {graphData.nodes[i] : i \in DOMAIN graphData.nodes}

\* the displayed graph an operation found was not saved
Unsaved(snapshot) == snapshot.graphData # NoGraph /\ ~snapshot.saved

\* C28: a load, and a generate or import that has begun, replaced or discarded
\* an unsaved graph only after the user chose to save it or to continue
\* without saving
C28_UnsavedGraphNeverLostSilently ==
    /\ outcome.op = "load" => ~Unsaved(outcome.before)
    /\ \A kind \in DOMAIN inFlight :
          (inFlight[kind].running /\ Unsaved(inFlight[kind].before)) =>
              inFlight[kind].via \in {"deny", "save"}

\* C29: a displayed graph flagged as saved is one of the graphs of the store
C29_SavedFlagMeansStored ==
    (graphData # NoGraph /\ isCurrentGraphSaved) => graphData \in savedGraphs

\* C30: isLoading is true exactly while a generate, import or expand
\* operation is in flight
C30_LoadingIffInFlight ==
    isLoading <=> (inFlight.generate.running \/ inFlight.import.running \/ expanding # NoNode)

\* C21: when the decoding of an export has just failed, one more error is
\* logged, no file has been produced, no exception has reached a caller and
\* the scene and its container are as they were
C21_DecodeFailureOnlyLogged ==
    exportEvent.kind = "error" =>
        /\ Len(consoleErrors) = Len(exportEvent.consoleErrors) + 1
        /\ downloads = exportEvent.downloads
        /\ callerError = exportEvent.callerError
        /\ scene = exportEvent.scene
        /\ viewport = exportEvent.viewport

C21_Witness ==
    /\ exportEvent.kind = "error"
    /\ ~callerError
    /\ consoleErrors # <<>>
    /\ downloads = <<>>

\* C22: every exported image shows the scene, and has the size of the
\* container, of the moment exportAsPNG was called
C22_ImageIsSceneAtCall ==
    \A i \in DOMAIN downloads :
        /\ downloads[i].content = Picture(downloads[i].atCall.scene)
        /\ downloads[i].size = downloads[i].atCall.viewport

C22_Witness == \E i \in DOMAIN downloads : downloads[i].allChanged

\* the saves that no later deleteGraph has removed, the latest first
RECURSIVE LiveNewestFirst(_)
LiveNewestFirst(k) ==
    IF k = 0 THEN <<>>
    ELSE IF dbDeleted[dbSaved[k].id] >= k THEN LiveNewestFirst(k - 1)
    ELSE <<dbSaved[k]>> \o LiveNewestFirst(k - 1)

\* C23: no two saves return the same id, and getSavedGraphsMeta returns the
\* id, name and createdAt of every graph saved and not deleted since, once
\* each, the most recently saved first
C23_MetaListsLiveGraphsNewestFirst ==
    /\ \A i \in DOMAIN dbSaved : \A j \in DOMAIN dbSaved : i # j => dbSaved[i].id # dbSaved[j].id
    /\ dbResult.op = "saveGraph" => dbResult.value = dbSaved[Len(dbSaved)].id
    /\ dbResult.op = "getSavedGraphsMeta" => dbResult.value = LiveNewestFirst(Len(dbSaved))

C23_Witness ==
    /\ dbResult.op = "getSavedGraphsMeta"
    /\ Len(dbResult.value) = 2
    /\ Len(dbSaved) = 3
    /\ dbResult.value[1].createdAt < dbResult.value[2].createdAt

============================================================================
